---------------------------- MODULE Spec2Model ----------------------------
(***************************************************************************)
(* botnode: the launcher (main.rs) and the trading engine (trading.rs).    *)
(*                                                                         *)
(* The main thread loads its configuration, installs a panic hook that     *)
(* triggers the process-wide Shutdown, starts the control engine, waits    *)
(* for the configuration it delivers, wires and starts one market-data     *)
(* engine per recognized exchange name, then the audit, trading and        *)
(* indicator engines, and finally serves termination signals.              *)
(*                                                                         *)
(* Shutdown is async_shutdown::Shutdown.  Its handle is a reference-counted *)
(* pointer to one shared record {shutdown flag, number of delay tokens}:   *)
(* shutdown() sets the flag, wait_shutdown_complete() resolves when the    *)
(* flag is set and no delay token is outstanding.  A clone of the handle   *)
(* is not a delay token (main.rs itself keeps one clone in the panic hook  *)
(* for the life of the process and one in handle_signals while it waits).  *)
(*                                                                         *)
(* start_engine, await_value and the control, market-data, indicator and   *)
(* audit engines are not among the source files; what the model needs of   *)
(* them follows the written specification.                                 *)
(***************************************************************************)
EXTENDS Naturals, Integers, Sequences, FiniteSets, TLC

\* ------------------------------------------------------------------ bounds
\* Longest exchange list the control engine delivers in the model.
MaxExchanges == 3
\* Most engine faults (panic or error return) in one run.
MaxFaults == 2
\* Most events one producer publishes in one run of the fan-out model.
MaxEvents == 2
\* Capacity given to spsc_queue::make in the backpressure model, where a
\* producer publishes one event more than a queue holds.
ScaledCapacity == 2

\* --------------------------------------------------------------- constants
\* (1..5) at main.rs:44 is the half-open range 1, 2, 3, 4.
ConfigRxFirst == 1
ConfigRxEnd == 5
\* vec![HashMap::new(), HashMap::new()] at main.rs:53
NumGroups == 2
\* spsc_queue::make(1024) at trading.rs:35
QueueCapacity == 1024
\* the opaque event values a producer may publish
Events == {"a", "b"}

ExchangeNames == {"ftx", "binance", "bogus"}
\* the arms of the match at main.rs:58-96
Recognized == {"ftx", "binance"}
\* Signals::new(&[SIGINT, SIGTERM, SIGQUIT]) at main.rs:123
TermSignals == {"SIGINT", "SIGTERM", "SIGQUIT"}

\* Engine identities.  A market-data engine is named by the 1-based position
\* of its list entry (start_engine(i + 1, ..) at main.rs:74 and 90).
Control == 0
Audit == MaxExchanges + 1
Trading == MaxExchanges + 2
Indicator == MaxExchanges + 3
MdEngines == 1..MaxExchanges
Engines == 0..(MaxExchanges + 3)

RECURSIVE SeqsUpTo(_)
SeqsUpTo(n) ==
    IF n = 0 THEN {<<>>}
    ELSE LET shorter == SeqsUpTo(n - 1)
         IN  shorter \cup {Append(s, x) : s \in {t \in shorter : Len(t) = n - 1},
                                          x \in ExchangeNames}
ExchangeLists == SeqsUpTo(MaxExchanges)

VARIABLES
    bot_id,            \* BOT_ID in the environment: "missing", "unparsable", "ok"
    server_addr,       \* SERVER_ADDR in the environment: "missing", "ok"
    main_pc,           \* position of the main thread
    exit_code,         \* "running", "0", "101" (the main thread panicked)
    hook_set,          \* the panic hook of main.rs:33 is installed
    triggered,         \* Shutdown: the shutdown flag
    delay_tokens,      \* Shutdown: engines holding a delay token
    clones,            \* engines holding a clone of the Shutdown handle (main
                       \*   holds the original, the hook a clone once set)
    shutdown_calls,    \* number of shutdown() calls made so far
    transitions,       \* number of times the flag went from unset to set
    published_config,  \* the control engine's output: <<>> or <<list>>
    config,            \* what await_value returned to main: <<>> or <<list>>
    config_rxs,        \* the pool of configuration consumers, a Vec
    i,                 \* 1-based index of the list entry main is at
    status,            \* per engine: "absent","constructed","running",
                       \*   "returned","failed","panicked"
    config_rx,         \* per engine: the configuration consumer it was built with
    data_txs,          \* per engine: one queue per consumer minted by data_rx,
                       \*   each [buf: events queued, popped: events popped,
                       \*   cap: capacity, attached: producer half held]
    market_data_rxs,   \* Vec of groups, each a map exchange name -> engine
    indicator_in,      \* the group handed to IndicatorEngine::new
    trading_in,        \* the group handed to TradingEngine::new
    sig_pending,       \* signal delivered and not yet taken: "none" or a name
    sig_received,      \* the signal handle_signals took: "none" or a name
    faults,            \* engine faults so far
    spawn_failed,      \* a start_engine call has returned an error
    trading_pc,        \* position in run_trading_loop: "pop_market","pop_indicator"
    published,         \* per engine: the events it has published, in order
    pub_cur,           \* per engine: the event being published, <<>> or <<ev>>
    pub_idx            \* per engine: the queue the current publish pushes next

vars == <<bot_id, server_addr, main_pc, exit_code, hook_set, triggered,
          delay_tokens, clones, shutdown_calls, transitions, published_config,
          config, config_rxs, i, status, config_rx, data_txs, market_data_rxs,
          indicator_in, trading_in, sig_pending, sig_received, faults,
          spawn_failed, trading_pc, published, pub_cur, pub_idx>>

env_vars == <<bot_id, server_addr>>
shutdown_vars == <<triggered, shutdown_calls, transitions>>
wiring_vars == <<config_rxs, i, config_rx, data_txs, market_data_rxs,
                 indicator_in, trading_in>>
signal_vars == <<sig_pending, sig_received>>
producer_vars == <<published, pub_cur, pub_idx>>
fanout_vars == <<trading_pc, producer_vars>>

EmptyGroup == [n \in ExchangeNames |-> 0]

\* spsc_queue::make(capacity): an empty queue of that capacity; attached
\* says whether the producer half is still held by the engine.
MakeQueue(capacity) ==
    [buf |-> <<>>, popped |-> <<>>, cap |-> capacity, attached |-> TRUE]

\* One queue per data_rx call, its producer half kept in the engine.
NewQueue == MakeQueue(QueueCapacity)

Init ==
    /\ bot_id \in {"missing", "unparsable", "ok"}
    /\ server_addr \in {"missing", "ok"}
    /\ main_pc = "load_configuration"
    /\ exit_code = "running"
    /\ hook_set = FALSE
    /\ triggered = FALSE
    /\ delay_tokens = {}
    /\ clones = {}
    /\ shutdown_calls = 0
    /\ transitions = 0
    /\ published_config = <<>>
    /\ config = <<>>
    /\ config_rxs = <<>>
    /\ i = 1
    /\ status = [e \in Engines |-> "absent"]
    /\ config_rx = [e \in Engines |-> 0]
    /\ data_txs = [e \in Engines |-> <<>>]
    /\ market_data_rxs = <<>>
    /\ indicator_in = EmptyGroup
    /\ trading_in = EmptyGroup
    /\ sig_pending = "none"
    /\ sig_received = "none"
    /\ faults = 0
    /\ spawn_failed = FALSE
    /\ trading_pc = "pop_market"
    /\ published = [e \in Engines |-> <<>>]
    /\ pub_cur = [e \in Engines |-> <<>>]
    /\ pub_idx = [e \in Engines |-> 1]


Last(s) == s[Len(s)]
Front(s) == SubSeq(s, 1, Len(s) - 1)

Launched(e) == status[e] \in {"running", "returned", "failed", "panicked"}
Alive == exit_code = "running"

\* ---------------------------------------------------------------- Shutdown
\* Shutdown::shutdown(): set the flag.  transitions counts the calls that
\* found it unset.
ShutdownToggles ==
    /\ triggered' = ~triggered
    /\ shutdown_calls' = shutdown_calls + 1
    /\ transitions' = transitions + 1

ShutdownCall ==
    /\ triggered' = TRUE
    /\ shutdown_calls' = shutdown_calls + 1
    /\ transitions' = IF triggered THEN transitions ELSE transitions + 1

\* Shutdown::wait_shutdown_complete(): ready when the flag is set and no
\* delay token is outstanding.
CompleteWithTokensOut == triggered

ShutdownComplete == triggered /\ delay_tokens = {}

\* The closure of the panic hook owns a clone of the handle (main.rs:31-33)
\* and is never uninstalled.
HookHoldsClone == hook_set

\* The panic hook of main.rs:33-37.  Before it is installed a panic runs the
\* default hook, which only reports.
PanicHookSilent == UNCHANGED shutdown_vars

PanicHook ==
    IF hook_set THEN ShutdownCall ELSE UNCHANGED shutdown_vars

\* A panic on the main thread (an expect or unwrap that fails): the hook
\* runs, the main thread unwinds and the process ends with status 101.
MainPanic ==
    /\ PanicHook
    /\ main_pc' = "panicked"
    /\ exit_code' = "101"

\* ------------------------------------------------------------- main thread
\* load_configuration with a default in place of a missing SERVER_ADDR.
LoadConfigurationLenient ==
    /\ Alive /\ main_pc = "load_configuration"
    /\ IF bot_id = "ok"
       THEN /\ main_pc' = "set_hook"
            /\ UNCHANGED <<exit_code, shutdown_vars>>
       ELSE MainPanic
    /\ UNCHANGED <<env_vars, spawn_failed, hook_set, delay_tokens, clones, published_config,
                   config, wiring_vars, status, signal_vars, faults, fanout_vars>>

\* main.rs:26 and 132-143
LoadConfiguration ==
    /\ Alive /\ main_pc = "load_configuration"
    /\ IF bot_id = "ok" /\ server_addr = "ok"
       THEN /\ main_pc' = "set_hook"
            /\ UNCHANGED <<exit_code, shutdown_vars>>
       ELSE MainPanic
    /\ UNCHANGED <<env_vars, spawn_failed, hook_set, delay_tokens, clones, published_config,
                   config, wiring_vars, status, signal_vars, faults, fanout_vars>>

\* main.rs:28-38
SetPanicHook ==
    /\ Alive /\ main_pc = "set_hook"
    /\ hook_set' = TRUE
    /\ main_pc' = "new_control"
    /\ UNCHANGED <<env_vars, spawn_failed, exit_code, shutdown_vars, delay_tokens, clones,
                   published_config, config, wiring_vars, status, signal_vars,
                   faults, fanout_vars>>

\* main.rs:43
NewControlEngine ==
    /\ Alive /\ main_pc = "new_control"
    /\ status' = [status EXCEPT ![Control] = "constructed"]
    /\ main_pc' = "config_rxs"
    /\ UNCHANGED <<env_vars, spawn_failed, exit_code, hook_set, shutdown_vars, delay_tokens,
                   clones, published_config, config, wiring_vars, signal_vars,
                   faults, fanout_vars>>

\* main.rs:44-47: one data_rx per element of the range, collected in order.
CollectConfigRxs ==
    /\ Alive /\ main_pc = "config_rxs"
    /\ config_rxs' = [k \in 1..(ConfigRxEnd - ConfigRxFirst) |-> k]
    /\ data_txs' = [data_txs EXCEPT
                        ![Control] = [k \in 1..(ConfigRxEnd - ConfigRxFirst) |-> NewQueue]]
    /\ main_pc' = "start_control"
    /\ UNCHANGED <<env_vars, spawn_failed, exit_code, hook_set, shutdown_vars, delay_tokens,
                   clones, published_config, config, i, config_rx,
                   market_data_rxs, indicator_in, trading_in, status,
                   signal_vars, faults, fanout_vars>>

\* start_engine: the thread is spawned and runs engine.start(shutdown) with
\* the clone it was given.  Every engine but the trading engine holds a
\* delay token while it runs; run_trading_loop (trading.rs:47-61) takes none.
Launch(e) ==
    /\ status' = [status EXCEPT ![e] = "running"]
    /\ clones' = clones \cup {e}
    /\ delay_tokens' = IF e = Trading THEN delay_tokens ELSE delay_tokens \cup {e}

\* start_engine(..) with its result dropped: a failed spawn is passed over.
StartIgnoringError(e, next_pc) ==
    \E spawned \in BOOLEAN :
        IF spawned
        THEN /\ Launch(e)
             /\ main_pc' = next_pc
             /\ UNCHANGED <<exit_code, shutdown_vars, spawn_failed>>
        ELSE /\ spawn_failed' = TRUE
             /\ main_pc' = next_pc
             /\ UNCHANGED <<exit_code, shutdown_vars, status, clones, delay_tokens>>

\* start_engine(..).expect(..): the spawn succeeds or main panics.
StartOrPanic(e, next_pc) ==
    \E spawned \in BOOLEAN :
        IF spawned
        THEN /\ Launch(e)
             /\ main_pc' = next_pc
             /\ UNCHANGED <<exit_code, shutdown_vars, spawn_failed>>
        ELSE /\ spawn_failed' = TRUE
             /\ MainPanic
             /\ UNCHANGED <<status, clones, delay_tokens>>

\* main.rs:49
StartControlEngine ==
    /\ Alive /\ main_pc = "start_control"
    /\ StartOrPanic(Control, "await_config")
    /\ UNCHANGED <<env_vars, hook_set, published_config, config, wiring_vars,
                   signal_vars, faults, fanout_vars>>


\* main.rs:52-53: take a consumer from the pool and block until the control
\* engine has delivered a value.
AwaitConfigNoWait ==
    /\ Alive /\ main_pc = "await_config"
    /\ \E l \in ExchangeLists : config' = <<l>>
    /\ config_rxs' = Front(config_rxs)
    /\ market_data_rxs' = [g \in 1..NumGroups |-> EmptyGroup]
    /\ i' = 1
    /\ main_pc' = "exchanges"
    /\ UNCHANGED <<env_vars, spawn_failed, exit_code, hook_set, shutdown_vars, delay_tokens,
                   clones, published_config, config_rx, data_txs, indicator_in,
                   trading_in, status, signal_vars, faults, fanout_vars>>

AwaitConfig ==
    /\ Alive /\ main_pc = "await_config"
    /\ published_config # <<>>
    /\ config' = published_config
    /\ config_rxs' = Front(config_rxs)
    /\ market_data_rxs' = [g \in 1..NumGroups |-> EmptyGroup]
    /\ i' = 1
    /\ main_pc' = "exchanges"
    /\ UNCHANGED <<env_vars, spawn_failed, exit_code, hook_set, shutdown_vars, delay_tokens,
                   clones, published_config, config_rx, data_txs, indicator_in,
                   trading_in, status, signal_vars, faults, fanout_vars>>

Exchanges == config[1]

\* Vec::pop: the last element, or nothing.
VecPop(v) == IF Len(v) = 0 THEN <<>> ELSE <<Last(v)>>

\* Option::unwrap panics on None.
UnwrapNeverPanics(opt) == FALSE

UnwrapPanics(opt) == opt = <<>>

\* The value unwrap yields; 0 stands for "no handle" and is never yielded,
\* because unwrap panics first.
Unwrapped(opt) == IF opt = <<>> THEN 0 ELSE opt[1]

\* The next list entry, with an unknown name ending the walk over the list.
NextExchangeUnknownEndsLoop ==
    /\ Alive /\ main_pc = "exchanges"
    /\ i <= Len(Exchanges)
    /\ IF Exchanges[i] \in Recognized
       THEN LET rx == VecPop(config_rxs)
            IN  IF UnwrapPanics(rx)
                THEN /\ MainPanic
                     /\ UNCHANGED <<config_rxs, status, config_rx, i>>
                ELSE /\ config_rxs' = Front(config_rxs)
                     /\ status' = [status EXCEPT ![i] = "constructed"]
                     /\ config_rx' = [config_rx EXCEPT ![i] = Unwrapped(rx)]
                     /\ main_pc' = "md_data_rx"
                     /\ UNCHANGED <<exit_code, shutdown_vars, i>>
       ELSE /\ i' = Len(Exchanges) + 1
            /\ UNCHANGED <<main_pc, exit_code, shutdown_vars, config_rxs, status,
                           config_rx>>
    /\ UNCHANGED <<env_vars, spawn_failed, hook_set, delay_tokens, clones, published_config,
                   config, data_txs, market_data_rxs, indicator_in, trading_in,
                   signal_vars, faults, fanout_vars>>

\* main.rs:55-64 and 77-80, 93-96: the next list entry.  A recognized name
\* takes a configuration consumer from the pool and constructs the engine;
\* any other name is logged and skipped.
NextExchange ==
    /\ Alive /\ main_pc = "exchanges"
    /\ i <= Len(Exchanges)
    /\ IF Exchanges[i] \in Recognized
       THEN LET rx == VecPop(config_rxs)
            IN  IF UnwrapPanics(rx)
                THEN /\ MainPanic
                     /\ UNCHANGED <<config_rxs, status, config_rx, i>>
                ELSE /\ config_rxs' = Front(config_rxs)
                     /\ status' = [status EXCEPT ![i] = "constructed"]
                     /\ config_rx' = [config_rx EXCEPT ![i] = Unwrapped(rx)]
                     /\ main_pc' = "md_data_rx"
                     /\ UNCHANGED <<exit_code, shutdown_vars, i>>
       ELSE /\ i' = i + 1
            /\ UNCHANGED <<main_pc, exit_code, shutdown_vars, config_rxs, status,
                           config_rx>>
    /\ UNCHANGED <<env_vars, spawn_failed, hook_set, delay_tokens, clones, published_config,
                   config, data_txs, market_data_rxs, indicator_in, trading_in,
                   signal_vars, faults, fanout_vars>>

\* main.rs:65-72 and 81-88: four consumers of the new engine, two inserted
\* into each group under the exchange name (HashMap::insert replaces an
\* entry of the same name).
MdDataRxs ==
    /\ Alive /\ main_pc = "md_data_rx"
    /\ data_txs' = [data_txs EXCEPT ![i] = [k \in 1..(2 * NumGroups) |-> NewQueue]]
    /\ market_data_rxs' = [g \in 1..NumGroups |->
                              [market_data_rxs[g] EXCEPT ![Exchanges[i]] = i]]
    /\ main_pc' = "md_start"
    /\ UNCHANGED <<env_vars, spawn_failed, exit_code, hook_set, shutdown_vars, delay_tokens,
                   clones, published_config, config, config_rxs, i, config_rx,
                   indicator_in, trading_in, status, signal_vars, faults,
                   fanout_vars>>

\* main.rs:74-75 and 90-91
StartMarketDataEngine ==
    /\ Alive /\ main_pc = "md_start"
    /\ StartOrPanic(i, "exchanges")
    /\ i' = IF main_pc' = "exchanges" THEN i + 1 ELSE i
    /\ UNCHANGED <<env_vars, hook_set, published_config, config, config_rxs,
                   config_rx, data_txs, market_data_rxs, indicator_in,
                   trading_in, signal_vars, faults, fanout_vars>>

\* The indicator engine constructed and started in one go, before the
\* trading engine asks it for a consumer.
NewIndicatorEngineStarted ==
    /\ Alive /\ main_pc = "exchanges"
    /\ i > Len(Exchanges)
    /\ config_rxs # <<>>
    /\ config_rxs' = Front(config_rxs)
    /\ status' = [status EXCEPT ![Indicator] = "running"]
    /\ config_rx' = [config_rx EXCEPT ![Indicator] = Last(config_rxs)]
    /\ indicator_in' = Last(market_data_rxs)
    /\ market_data_rxs' = Front(market_data_rxs)
    /\ main_pc' = "new_trading"
    /\ UNCHANGED <<env_vars, spawn_failed, exit_code, hook_set, shutdown_vars, delay_tokens,
                   clones, published_config, config, i, data_txs, trading_in,
                   signal_vars, faults, fanout_vars>>

\* main.rs:99-100: the indicator engine gets a configuration consumer and
\* the last group.
NewIndicatorEngine ==
    /\ Alive /\ main_pc = "exchanges"
    /\ i > Len(Exchanges)
    /\ LET rx == VecPop(config_rxs)
       IN  IF UnwrapPanics(rx)
           THEN /\ MainPanic
                /\ UNCHANGED <<config_rxs, status, config_rx, market_data_rxs,
                               indicator_in>>
           ELSE /\ config_rxs' = Front(config_rxs)
                /\ status' = [status EXCEPT ![Indicator] = "constructed"]
                /\ config_rx' = [config_rx EXCEPT ![Indicator] = Unwrapped(rx)]
                /\ indicator_in' = Last(market_data_rxs)
                /\ market_data_rxs' = Front(market_data_rxs)
                /\ main_pc' = "new_trading"
                /\ UNCHANGED <<exit_code, shutdown_vars>>
    /\ UNCHANGED <<env_vars, spawn_failed, hook_set, delay_tokens, clones, published_config,
                   config, i, data_txs, trading_in, signal_vars, faults,
                   fanout_vars>>

\* main.rs:102-103: the trading engine gets the remaining group and one
\* consumer of the indicator engine.
NewTradingEngine ==
    /\ Alive /\ main_pc = "new_trading"
    /\ trading_in' = Last(market_data_rxs)
    /\ market_data_rxs' = Front(market_data_rxs)
    /\ data_txs' = [data_txs EXCEPT ![Indicator] = Append(@, NewQueue)]
    /\ status' = [status EXCEPT ![Trading] = "constructed"]
    /\ main_pc' = "start_audit"
    /\ UNCHANGED <<env_vars, spawn_failed, exit_code, hook_set, shutdown_vars, delay_tokens,
                   clones, published_config, config, config_rxs, i, config_rx,
                   indicator_in, signal_vars, faults, fanout_vars>>

\* main.rs:105-110
StartAuditEngine ==
    /\ Alive /\ main_pc = "start_audit"
    /\ StartOrPanic(Audit, "start_trading")
    /\ UNCHANGED <<env_vars, hook_set, published_config, config, wiring_vars,
                   signal_vars, faults, fanout_vars>>

\* main.rs:112-113
StartTradingEngine ==
    /\ Alive /\ main_pc = "start_trading"
    /\ StartOrPanic(Trading, "start_indicator")
    /\ UNCHANGED <<env_vars, hook_set, published_config, config, wiring_vars,
                   signal_vars, faults, fanout_vars>>

\* main.rs:115-120
StartIndicatorEngine ==
    /\ Alive /\ main_pc = "start_indicator"
    /\ StartOrPanic(Indicator, "register_signals")
    /\ UNCHANGED <<env_vars, hook_set, published_config, config, wiring_vars,
                   signal_vars, faults, fanout_vars>>

\* main.rs:123-125 and 150: the three signals are registered and
\* handle_signals starts waiting for the first of them.
RegisterSignals ==
    /\ Alive /\ main_pc = "register_signals"
    /\ main_pc' = "handle_signals"
    /\ UNCHANGED <<env_vars, spawn_failed, exit_code, hook_set, shutdown_vars, delay_tokens,
                   clones, published_config, config, wiring_vars, status,
                   signal_vars, faults, fanout_vars>>

\* main.rs:152-161: the first signal triggers the shutdown and ends the loop.
HandleSignalNoShutdown ==
    /\ Alive /\ main_pc = "handle_signals"
    /\ sig_pending \in TermSignals
    /\ sig_received' = sig_pending
    /\ sig_pending' = "none"
    /\ main_pc' = "wait_shutdown_complete"
    /\ UNCHANGED <<env_vars, spawn_failed, exit_code, hook_set, shutdown_vars, delay_tokens,
                   clones, published_config, config, wiring_vars, status, faults,
                   fanout_vars>>

HandleSignal ==
    /\ Alive /\ main_pc = "handle_signals"
    /\ sig_pending \in TermSignals
    /\ sig_received' = sig_pending
    /\ sig_pending' = "none"
    /\ ShutdownCall
    /\ main_pc' = "wait_shutdown_complete"
    /\ UNCHANGED <<env_vars, spawn_failed, exit_code, hook_set, delay_tokens, clones,
                   published_config, config, wiring_vars, status, faults,
                   fanout_vars>>

\* process::exit(0) straight after the loop, the barrier not awaited.
ExitWithoutWaiting ==
    /\ Alive /\ main_pc = "wait_shutdown_complete"
    /\ main_pc' = "exited"
    /\ exit_code' = "0"
    /\ UNCHANGED <<env_vars, spawn_failed, hook_set, shutdown_vars, delay_tokens, clones,
                   published_config, config, wiring_vars, status, signal_vars,
                   faults, fanout_vars>>

\* main.rs:163-167
WaitShutdownComplete ==
    /\ Alive /\ main_pc = "wait_shutdown_complete"
    /\ ShutdownComplete
    /\ main_pc' = "exited"
    /\ exit_code' = "0"
    /\ UNCHANGED <<env_vars, spawn_failed, hook_set, shutdown_vars, delay_tokens, clones,
                   published_config, config, wiring_vars, status, signal_vars,
                   faults, fanout_vars>>


\* ----------------------------------------------------------------- engines
\* The control engine delivers the configuration once it runs.
ControlPublishConfig ==
    /\ Alive /\ status[Control] = "running"
    /\ published_config = <<>>
    /\ \E l \in ExchangeLists : published_config' = <<l>>
    /\ UNCHANGED <<env_vars, spawn_failed, main_pc, exit_code, hook_set, shutdown_vars,
                   delay_tokens, clones, config, wiring_vars, status,
                   signal_vars, faults, fanout_vars>>

\* What a thread gives up when it ends: its clone and its delay token.
ThreadEnds(e) ==
    /\ clones' = clones \ {e}
    /\ delay_tokens' = delay_tokens \ {e}

\* An engine that observes the cancellation returns Ok from start.  The
\* trading loop (trading.rs:52-60) has no return and never reads _shutdown.
EngineObservesShutdown(e) ==
    /\ Alive /\ e # Trading
    /\ status[e] = "running" /\ triggered
    /\ status' = [status EXCEPT ![e] = "returned"]
    /\ ThreadEnds(e)
    /\ UNCHANGED <<env_vars, spawn_failed, main_pc, exit_code, hook_set, shutdown_vars,
                   published_config, config, wiring_vars, signal_vars, faults,
                   fanout_vars>>

\* An engine's start returns an error: the launcher triggers the shutdown
\* before the thread ends.
EngineError(e) ==
    /\ Alive /\ e # Trading
    /\ status[e] = "running" /\ faults < MaxFaults
    /\ faults' = faults + 1
    /\ status' = [status EXCEPT ![e] = "failed"]
    /\ ShutdownCall
    /\ ThreadEnds(e)
    /\ UNCHANGED <<env_vars, spawn_failed, main_pc, exit_code, hook_set, published_config,
                   config, wiring_vars, signal_vars, fanout_vars>>

\* An engine thread panics: the panic hook runs on that thread, then the
\* thread unwinds.  Only a panic of the main thread ends the process.
EnginePanic(e) ==
    /\ Alive /\ e # Trading
    /\ status[e] = "running" /\ faults < MaxFaults
    /\ faults' = faults + 1
    /\ status' = [status EXCEPT ![e] = "panicked"]
    /\ PanicHook
    /\ ThreadEnds(e)
    /\ UNCHANGED <<env_vars, spawn_failed, main_pc, exit_code, hook_set, published_config,
                   config, wiring_vars, signal_vars, fanout_vars>>

\* ----------------------------------------------------------------- signals
\* The operating system delivers a termination signal to the process once
\* main.rs:123 has registered the three of them: it is queued for
\* handle_signals.  After the loop of main.rs:152 has ended nobody reads the
\* queue any more.
DeliverSignal(sig) ==
    /\ Alive /\ sig_pending = "none"
    /\ main_pc = "handle_signals"
    /\ sig_pending' = sig
    /\ UNCHANGED <<env_vars, spawn_failed, main_pc, exit_code, hook_set, shutdown_vars,
                   delay_tokens, clones, published_config, config, wiring_vars,
                   status, sig_received, faults, fanout_vars>>

MainStep ==
    \/ LoadConfiguration
    \/ SetPanicHook
    \/ NewControlEngine
    \/ CollectConfigRxs
    \/ StartControlEngine
    \/ AwaitConfig
    \/ NextExchange
    \/ MdDataRxs
    \/ StartMarketDataEngine
    \/ NewIndicatorEngine
    \/ NewTradingEngine
    \/ StartAuditEngine
    \/ StartTradingEngine
    \/ StartIndicatorEngine
    \/ RegisterSignals
    \/ HandleSignal
    \/ WaitShutdownComplete

EngineStep ==
    \/ ControlPublishConfig
    \/ \E e \in Engines : EngineObservesShutdown(e)

Fault == \E e \in Engines : EngineError(e) \/ EnginePanic(e)

Next ==
    \/ MainStep
    \/ EngineStep
    \/ Fault
    \/ \E sig \in TermSignals : DeliverSignal(sig)

Spec == Init /\ [][Next]_vars

\* The main thread and every engine thread keep being scheduled; faults and
\* signals are up to the environment.
FairSpec == Spec /\ WF_vars(MainStep) /\ WF_vars(EngineStep)


\* ---------------------------------------------------------- event fan-out
\* The data plane once the topology for the list <<"ftx">> runs: main has
\* wired and started everything and waits in handle_signals.
\* the engine of the first list entry, start_engine(i + 1, ..) with i = 0
FirstMd == 1
FtxOnly == [EmptyGroup EXCEPT !["ftx"] = FirstMd]
FanoutProducers == {FirstMd, Indicator}
FanoutRunning == {Control, FirstMd, Audit, Trading, Indicator}

FanoutInit(queue) ==
    /\ bot_id = "ok" /\ server_addr = "ok"
    /\ main_pc = "handle_signals"
    /\ exit_code = "running"
    /\ hook_set = TRUE
    /\ triggered = FALSE
    /\ delay_tokens = FanoutRunning \ {Trading}
    /\ clones = FanoutRunning
    /\ shutdown_calls = 0
    /\ transitions = 0
    /\ published_config = << <<"ftx">> >>
    /\ config = << <<"ftx">> >>
    /\ config_rxs = <<1>>
    /\ i = 2
    /\ status = [e \in Engines |-> IF e \in FanoutRunning THEN "running" ELSE "absent"]
    /\ config_rx = [e \in Engines |->
                       IF e = FirstMd THEN 3 ELSE IF e = Indicator THEN 2 ELSE 0]
    /\ data_txs = [e \in Engines |->
                      IF e = Control THEN [k \in 1..(ConfigRxEnd - ConfigRxFirst) |-> queue]
                      ELSE IF e = FirstMd THEN [k \in 1..(2 * NumGroups) |-> queue]
                      ELSE IF e = Indicator THEN <<queue>>
                      ELSE <<>>]
    /\ market_data_rxs = <<>>
    /\ indicator_in = FtxOnly
    /\ trading_in = FtxOnly
    /\ sig_pending = "none"
    /\ sig_received = "none"
    /\ faults = 0
    /\ spawn_failed = FALSE
    /\ trading_pc = "pop_market"
    /\ published = [e \in Engines |-> <<>>]
    /\ pub_cur = [e \in Engines |-> <<>>]
    /\ pub_idx = [e \in Engines |-> 1]

InitFanout == FanoutInit(NewQueue)

main_vars == <<env_vars, spawn_failed, main_pc, exit_code, hook_set, shutdown_vars,
               delay_tokens, clones, published_config, config, config_rxs, i,
               config_rx, market_data_rxs, indicator_in, trading_in, status,
               signal_vars, faults>>

\* A producer engine publishes an event: it is pushed to each of the
\* engine's queues in turn, in the order the consumers were minted.
PublishUpTo(e, ev, limit) ==
    /\ Alive /\ status[e] = "running"
    /\ pub_cur[e] = <<>>
    /\ Len(published[e]) < limit
    /\ Len(data_txs[e]) > 0
    /\ published' = [published EXCEPT ![e] = Append(@, ev)]
    /\ pub_cur' = [pub_cur EXCEPT ![e] = <<ev>>]
    /\ pub_idx' = [pub_idx EXCEPT ![e] = 1]
    /\ UNCHANGED <<main_vars, data_txs, trading_pc>>

Publish(e, ev) == PublishUpTo(e, ev, MaxEvents)

\* One push of the publish under way; a push waits while its queue is full.
PushNext(e) ==
    /\ Alive /\ status[e] = "running"
    /\ pub_cur[e] # <<>>
    /\ Len(data_txs[e][pub_idx[e]].buf) < data_txs[e][pub_idx[e]].cap
    /\ data_txs' = [data_txs EXCEPT ![e][pub_idx[e]].buf = Append(@, pub_cur[e][1])]
    /\ IF pub_idx[e] = Len(data_txs[e])
       THEN /\ pub_cur' = [pub_cur EXCEPT ![e] = <<>>]
            /\ pub_idx' = [pub_idx EXCEPT ![e] = 1]
       ELSE /\ pub_idx' = [pub_idx EXCEPT ![e] = @ + 1]
            /\ UNCHANGED pub_cur
    /\ UNCHANGED <<main_vars, published, trading_pc>>

\* Consumer::try_pop: the oldest queued event leaves the queue, or nothing
\* happens on an empty queue.
TryPopKeeps(q) ==
    IF q.buf = <<>> THEN q
    ELSE [q EXCEPT !.popped = Append(q.popped, Head(q.buf))]

TryPopSkips(q) ==
    IF Len(q.buf) < 2 THEN q
    ELSE [q EXCEPT !.buf = Tail(Tail(q.buf)),
                   !.popped = Append(q.popped, Head(Tail(q.buf)))]

TryPop(q) ==
    IF q.buf = <<>> THEN q
    ELSE [q EXCEPT !.buf = Tail(q.buf), !.popped = Append(q.popped, Head(q.buf))]

\* The consumers the trading loop polls: the first one minted on the
\* market-data engine and the one minted on the indicator engine.
TradingMarketRx == 1
TradingIndicatorRx == 1

\* A loop that reads the cancellation before each iteration and returns.
TradingPopMarketChecksShutdown ==
    /\ Alive /\ status[Trading] = "running"
    /\ trading_pc = "pop_market"
    /\ IF triggered
       THEN /\ status' = [status EXCEPT ![Trading] = "returned"]
            /\ ThreadEnds(Trading)
            /\ UNCHANGED <<data_txs, trading_pc>>
       ELSE /\ data_txs' = [data_txs EXCEPT ![FirstMd][TradingMarketRx] = TryPop(@)]
            /\ trading_pc' = "pop_indicator"
            /\ UNCHANGED <<status, clones, delay_tokens>>
    /\ UNCHANGED <<env_vars, spawn_failed, main_pc, exit_code, hook_set, shutdown_vars,
                   published_config, config, config_rxs, i, config_rx,
                   market_data_rxs, indicator_in, trading_in, signal_vars,
                   faults, producer_vars>>

\* A blocking pop in place of try_pop: the loop waits for a market event.
TradingPopMarketBlocking ==
    /\ Alive /\ status[Trading] = "running"
    /\ trading_pc = "pop_market"
    /\ data_txs[FirstMd][TradingMarketRx].buf # <<>>
    /\ data_txs' = [data_txs EXCEPT ![FirstMd][TradingMarketRx] = TryPop(@)]
    /\ trading_pc' = "pop_indicator"
    /\ UNCHANGED <<main_vars, producer_vars>>

\* trading.rs:53
TradingPopMarket ==
    /\ Alive /\ status[Trading] = "running"
    /\ trading_pc = "pop_market"
    /\ data_txs' = [data_txs EXCEPT ![FirstMd][TradingMarketRx] = TryPop(@)]
    /\ trading_pc' = "pop_indicator"
    /\ UNCHANGED <<main_vars, producer_vars>>

\* trading.rs:57
TradingPopIndicator ==
    /\ Alive /\ status[Trading] = "running"
    /\ trading_pc = "pop_indicator"
    /\ data_txs' = [data_txs EXCEPT ![Indicator][TradingIndicatorRx] = TryPop(@)]
    /\ trading_pc' = "pop_market"
    /\ UNCHANGED <<main_vars, producer_vars>>

\* Any other consumer of the market-data engine is polled by its holder.
OtherConsumerPops(c) ==
    /\ Alive
    /\ c \in 1..Len(data_txs[FirstMd]) /\ c # TradingMarketRx
    /\ data_txs[FirstMd][c].buf # <<>>
    /\ data_txs' = [data_txs EXCEPT ![FirstMd][c] = TryPop(@)]
    /\ UNCHANGED <<main_vars, fanout_vars>>

NextFanout ==
    \/ \E e \in FanoutProducers, ev \in Events : Publish(e, ev)
    \/ \E e \in FanoutProducers : PushNext(e)
    \/ TradingPopMarket
    \/ TradingPopIndicator
    \/ \E c \in 1..(2 * NumGroups) : OtherConsumerPops(c)

SpecFanout == InitFanout /\ [][NextFanout]_vars


\* ------------------------------------------------------------------ claims
IsPrefix(s, t) == Len(s) <= Len(t) /\ s = SubSeq(t, 1, Len(s))

\* What consumer c of engine e has been handed so far: popped, then queued.
Received(e, c) == data_txs[e][c].popped \o data_txs[e][c].buf

\* C1: every consumer of a producer pops exactly the events the producer
\* published, each once and in publish order: what a consumer has popped and
\* still has queued is a prefix of the published sequence, it lacks at most
\* the event whose publish is under way, and nothing once that publish is done.
C1_FanOutIntegrity ==
    \A e \in FanoutProducers : \A c \in 1..Len(data_txs[e]) :
        /\ IsPrefix(data_txs[e][c].popped, published[e])
        /\ IsPrefix(Received(e, c), published[e])
        /\ Len(Received(e, c)) =
              IF pub_cur[e] # <<>> /\ c >= pub_idx[e]
              THEN Len(published[e]) - 1
              ELSE Len(published[e])

\* The trading loop has popped two different events in publish order while
\* another consumer of the same engine has popped none of them yet.
C1_Witness ==
    /\ Len(published[FirstMd]) = 2
    /\ published[FirstMd][1] # published[FirstMd][2]
    /\ pub_cur[FirstMd] = <<>>
    /\ data_txs[FirstMd][TradingMarketRx].popped = published[FirstMd]
    /\ \E c \in 1..Len(data_txs[FirstMd]) :
          data_txs[FirstMd][c].popped = <<>> /\ data_txs[FirstMd][c].buf = published[FirstMd]


\* C2: the shutdown flag is set at most once and never cleared; however many
\* shutdown() calls the signal handler and the panic hook make, exactly one of
\* them changes the flag and every call that finds it set changes nothing.
C2_ShutdownIdempotent ==
    [][/\ (triggered => triggered')
       /\ (triggered /\ shutdown_calls' > shutdown_calls => transitions' = transitions)
       /\ transitions' <= 1
       /\ (shutdown_calls' > 0 => triggered' /\ transitions' = 1)]_vars

\* The signal handler and the panic hook have both called shutdown().
C2_Witness ==
    /\ shutdown_calls >= 2
    /\ transitions = 1
    /\ sig_received \in TermSignals
    /\ \E e \in Engines : status[e] = "panicked"

C4_SignalLeadsToExit ==
    (main_pc = "handle_signals" /\ sig_pending \in TermSignals) ~> (exit_code = "0")

\* The process has exited with code 0 after a signal, every other engine
\* having returned and the trading loop still running.
C4_Witness ==
    /\ exit_code = "0"
    /\ sig_received \in TermSignals
    /\ status[Trading] = "running"
    /\ \A e \in {Control, Audit, Indicator} : status[e] = "returned"

\* C5: an engine whose thread panicked or whose start returned an error has
\* left the shutdown flag set, and it stays set.
C5_FailureTriggersShutdown ==
    \A e \in Engines : status[e] \in {"panicked", "failed"} => triggered

\* One engine has panicked while another one is still running.
C5_Witness ==
    /\ Alive
    /\ \E e, f \in Engines : status[e] = "panicked" /\ status[f] = "running" /\ f # Trading

\* C6: once the topology is launched, a panic of an engine thread leads to
\* the process ending, signal or no signal.
C6_PanicLeadsToExit ==
    (main_pc = "handle_signals" /\ \E e \in Engines : status[e] = "panicked")
        ~> (exit_code # "running")


\* The engines built from a configuration consumer.
ConfiguredEngines == MdEngines \cup {Indicator}
PastExchange(k) ==
    config # <<>> /\ (i > k \/ main_pc \notin {"exchanges", "md_data_rx", "md_start",
                                              "panicked"})
StartupDone == main_pc \in {"register_signals", "handle_signals",
                            "wait_shutdown_complete", "exited"}

\* C7: an unrecognized exchange name launches no engine and takes no
\* consumer, and main goes on with the rest of the list: every recognized
\* entry main has gone past has its market-data engine launched, main never
\* aborts at an unrecognized entry, and once startup is through the audit,
\* trading and indicator engines are launched.
C7_UnknownExchangeSkipped ==
    /\ \A k \in MdEngines :
          status[k] # "absent" \/ config_rx[k] # 0 \/ data_txs[k] # <<>>
              => config # <<>> /\ k <= Len(Exchanges) /\ Exchanges[k] \in Recognized
    /\ config # <<>> =>
          Len(config_rxs) + 1 + Cardinality({e \in ConfiguredEngines : status[e] # "absent"})
              = ConfigRxEnd - ConfigRxFirst
    /\ \A k \in MdEngines :
          PastExchange(k) /\ k <= Len(Exchanges) /\ Exchanges[k] \in Recognized
              => Launched(k)
    /\ main_pc = "panicked" /\ config # <<>> /\ i <= Len(Exchanges)
          => Exchanges[i] \in Recognized
    /\ StartupDone => Launched(Audit) /\ Launched(Trading) /\ Launched(Indicator)

\* Startup is through for a list with unrecognized names before and after a
\* recognized one.
C7_Witness ==
    /\ main_pc = "handle_signals"
    /\ Len(Exchanges) = 3
    /\ Exchanges[1] \notin Recognized
    /\ Exchanges[2] \in Recognized
    /\ Exchanges[3] \notin Recognized
    /\ status[2] = "running"
    /\ status[Indicator] = "running"

\* C8: the control engine is the first engine launched, and no other engine
\* is constructed or launched before main holds the configuration the control
\* engine delivered; while none is delivered no other engine exists.
C8_ControlFirst ==
    \A e \in Engines \ {Control} :
        status[e] # "absent"
            => Launched(Control) /\ published_config # <<>> /\ config = published_config

\* A market-data engine runs, built from the delivered configuration.
C8_Witness ==
    /\ \E k \in MdEngines : status[k] = "running"
    /\ published_config # <<>>
    /\ config = published_config

\* C9: data_rx is only ever called on an engine that is not launched yet, and
\* the engine is still not launched when the call returns.
C9_RegistrationBeforeStart ==
    [][\A e \in Engines :
          data_txs'[e] # data_txs[e]
              => status[e] \in {"absent", "constructed"} /\ status'[e] = "constructed"]_vars

\* The control, a market-data and the indicator engine all run, each with the
\* consumers minted for it beforehand.
C9_Witness ==
    /\ status[Control] = "running" /\ Len(data_txs[Control]) = ConfigRxEnd - ConfigRxFirst
    /\ status[FirstMd] = "running" /\ Len(data_txs[FirstMd]) = 2 * NumGroups
    /\ status[Indicator] = "running" /\ Len(data_txs[Indicator]) = 1

\* C10: a request for a configuration consumer that finds the pool of four
\* empty panics on the spot: the next step of main is the panic, it constructs
\* and launches nothing, and the hook has triggered the shutdown; every engine
\* built from a configuration consumer holds one of the four, each its own.
C10_OverSubscriptionPanics ==
    [][/\ \A e \in ConfiguredEngines :
             status'[e] # "absent" => config_rx'[e] \in ConfigRxFirst..(ConfigRxEnd - 1)
       /\ \A e, f \in ConfiguredEngines :
             status'[e] # "absent" /\ status'[f] # "absent" /\ e # f
                 => config_rx'[e] # config_rx'[f]
       /\ ( /\ main_pc = "exchanges" /\ config_rxs = <<>>
            /\ main_pc' # "exchanges"
            => /\ main_pc' = "panicked" /\ exit_code' = "101" /\ triggered'
               /\ status' = status /\ config_rx' = config_rx )]_vars

\* Three recognized entries took the last consumers and the indicator engine
\* asked for a fifth: main panicked with the three market-data engines
\* launched and no indicator engine constructed.
C10_Witness ==
    /\ main_pc = "panicked"
    /\ exit_code = "101"
    /\ config_rxs = <<>>
    /\ config # <<>> /\ Len(Exchanges) >= 3
    /\ i = Len(Exchanges) + 1
    /\ \A k \in 1..Len(Exchanges) : Launched(k)
    /\ status[Indicator] = "absent"


\* -------------------------------------------------------------- backpressure
\* The same data plane with every queue made with a small capacity, so that a
\* producer reaches a full queue.  Only the trading loop polls its consumers;
\* the other consumers of the market-data engine are left unpolled.
InitBackpressure == FanoutInit(MakeQueue(ScaledCapacity))

NextBackpressure ==
    \/ \E e \in FanoutProducers, ev \in Events : PublishUpTo(e, ev, ScaledCapacity + 1)
    \/ \E e \in FanoutProducers : PushNext(e)
    \/ TradingPopMarket
    \/ TradingPopIndicator

SpecBackpressure == InitBackpressure /\ [][NextBackpressure]_vars

\* C11: a queue never holds more events than the capacity it was made with;
\* a queue only grows by a push that found room, so a push on a full queue
\* completes only after its consumer has popped; and no accepted event is
\* dropped, overwritten or duplicated: what was popped and what is queued
\* make up the published sequence, less only the event still being pushed.
C11_Backpressure ==
    [][\A e \in FanoutProducers : \A c \in 1..Len(data_txs[e]) :
          LET before == data_txs[e][c]
              after == data_txs'[e][c]
          IN  /\ after.cap = before.cap
              /\ Len(after.buf) <= after.cap
              /\ Len(after.buf) > Len(before.buf) => Len(before.buf) < before.cap
              /\ IsPrefix(after.popped \o after.buf, published'[e])
              /\ Len(after.popped) + Len(after.buf) =
                    IF pub_cur'[e] # <<>> /\ c >= pub_idx'[e]
                    THEN Len(published'[e]) - 1
                    ELSE Len(published'[e])]_vars

\* The indicator engine's queue is full and the push of one more event is
\* held back until the trading loop pops.
C11_Witness ==
    LET q == data_txs[Indicator][TradingIndicatorRx]
    IN  /\ Len(q.buf) = q.cap
        /\ pub_cur[Indicator] # <<>>
        /\ pub_idx[Indicator] = TradingIndicatorRx
        /\ Len(published[Indicator]) = q.cap + 1 + Len(q.popped)


\* ------------------------------------------------------------ spawn failure
\* C12: once start_engine has returned an error for any engine, the main
\* thread has panicked and the process has ended with status 101; the step
\* of the failure and every step after it launch no engine, and the main
\* thread is never at the signal registration, in handle_signals or in
\* wait_shutdown_complete.
C12_SpawnFailureFatal ==
    [][spawn_failed' =>
          /\ main_pc' = "panicked"
          /\ exit_code' = "101"
          /\ {e \in Engines : Launched(e)}' = {e \in Engines : Launched(e)}]_vars

\* The audit engine's spawn fails after the control engine and a
\* market-data engine have been launched: the hook has triggered the
\* shutdown and the trading and indicator engines were never launched.
C12_Witness ==
    /\ spawn_failed
    /\ main_pc = "panicked"
    /\ Launched(Control) /\ Launched(FirstMd)
    /\ status[Audit] = "absent"
    /\ ~Launched(Trading) /\ ~Launched(Indicator)
    /\ i = Len(Exchanges) + 1
    /\ triggered



\* -------------------------------------------------------------- exit status
\* C13: the process takes exit status 0 only in a step of the main thread
\* that leaves wait_shutdown_complete, in an execution where handle_signals
\* has received SIGINT, SIGTERM or SIGQUIT, with the shutdown triggered and
\* the completion barrier resolved (no delay token outstanding) before the
\* step; every state with exit status 0 still shows all of these.
C13_ExitStatusOrdering ==
    [][exit_code' = "0" =>
          /\ main_pc \in {"wait_shutdown_complete", "exited"}
          /\ main_pc' = "exited"
          /\ sig_received \in TermSignals /\ sig_received' = sig_received
          /\ triggered /\ triggered'
          /\ delay_tokens = {} /\ delay_tokens' = {}]_vars

\* SIGQUIT was received, handle_signals made the only shutdown call, two
\* engines returned on it and the process exited with status 0.
C13_Witness ==
    /\ exit_code = "0"
    /\ sig_received = "SIGQUIT"
    /\ shutdown_calls = 1
    /\ status[Control] = "returned" /\ status[Indicator] = "returned"



\* ------------------------------------------------------ configuration error
\* C14: when BOT_ID is missing or is no unsigned 16-bit number, or
\* SERVER_ADDR is missing, the main thread is either still in
\* load_configuration or has panicked there with status 101: no engine is
\* ever constructed or launched, the panic hook is not yet installed and the
\* main thread never comes to handle_signals.
C14_ConfigurationErrorAborts ==
    (bot_id # "ok" \/ server_addr # "ok") =>
        /\ \A e \in Engines : status[e] = "absent"
        /\ clones = {} /\ delay_tokens = {}
        /\ ~hook_set /\ ~triggered
        /\ \/ main_pc = "load_configuration" /\ exit_code = "running"
           \/ main_pc = "panicked" /\ exit_code = "101"

\* BOT_ID is set but is not a u16 and SERVER_ADDR is set: the second expect
\* of load_configuration has panicked.
C14_Witness ==
    /\ bot_id = "unparsable" /\ server_addr = "ok"
    /\ main_pc = "panicked" /\ exit_code = "101"
    /\ \A e \in Engines : status[e] = "absent"



\* ------------------------------------------------- trading loop and shutdown
\* The running process of InitFanout with its trading loop polling while
\* signals arrive, engines fail and the shutdown runs its course.
NextTrading ==
    \/ TradingPopMarket
    \/ TradingPopIndicator
    \/ \E sig \in TermSignals : DeliverSignal(sig)
    \/ HandleSignal
    \/ WaitShutdownComplete
    \/ \E e \in Engines : EngineObservesShutdown(e)
    \/ Fault

SpecTrading == InitFanout /\ [][NextTrading]_vars

\* C15: while the process runs, a trading engine that has been launched is
\* running and holds the Shutdown it was started with, in every state,
\* whether or not the shutdown has been triggered; no step of the loop
\* ends it.
C15_TradingIgnoresCancellation ==
    (Alive /\ Launched(Trading)) =>
        /\ status[Trading] = "running"
        /\ Trading \in clones

\* The shutdown was triggered by a signal and every other engine has
\* returned on it; main waits at the barrier and the trading loop is in the
\* middle of an iteration.
C15_Witness ==
    /\ Alive /\ triggered /\ sig_received \in TermSignals
    /\ main_pc = "wait_shutdown_complete"
    /\ \A e \in FanoutRunning \ {Trading} : status[e] = "returned"
    /\ status[Trading] = "running"
    /\ trading_pc = "pop_indicator"



\* ------------------------------------------------------ trading loop polling
\* The trading loop against its two producers; the trading thread keeps
\* being scheduled, the producers publish when they please.
NextPolling ==
    \/ \E e \in FanoutProducers, ev \in Events : Publish(e, ev)
    \/ \E e \in FanoutProducers : PushNext(e)
    \/ TradingPopMarket
    \/ TradingPopIndicator

TradingIteration == TradingPopMarket \/ TradingPopIndicator

FairSpecPolling ==
    /\ InitFanout /\ [][NextPolling]_vars
    /\ WF_vars(TradingIteration)

MarketQueue == data_txs[FirstMd][TradingMarketRx]
IndicatorQueue == data_txs[Indicator][TradingIndicatorRx]

\* C16: the loop alternates one try_pop on the market-data consumer and one
\* on the indicator consumer, each taking the head of its queue if there is
\* one and touching nothing else, and neither waits on an empty queue; so
\* every event pushed to either queue is eventually popped, once and in
\* push order, whatever the other queue holds.
C16_TradingLoopPolling ==
    /\ [][/\ (trading_pc = "pop_market" /\ trading_pc' # trading_pc) =>
                /\ trading_pc' = "pop_indicator"
                /\ MarketQueue' = TryPop(MarketQueue)
                /\ IndicatorQueue'.popped = IndicatorQueue.popped
          /\ (trading_pc = "pop_indicator" /\ trading_pc' # trading_pc) =>
                /\ trading_pc' = "pop_market"
                /\ IndicatorQueue' = TryPop(IndicatorQueue)
                /\ MarketQueue'.popped = MarketQueue.popped
          /\ (trading_pc' = trading_pc) =>
                /\ IndicatorQueue'.popped = IndicatorQueue.popped
                /\ MarketQueue'.popped = MarketQueue.popped]_vars
    /\ [](IsPrefix(IndicatorQueue.popped, published[Indicator]))
    /\ [](IsPrefix(MarketQueue.popped, published[FirstMd]))
    /\ (trading_pc = "pop_market") ~> (trading_pc = "pop_indicator")
    /\ (trading_pc = "pop_indicator") ~> (trading_pc = "pop_market")
    /\ \A k \in 1..MaxEvents :
          (Len(IndicatorQueue.popped) + Len(IndicatorQueue.buf) >= k)
              ~> (Len(IndicatorQueue.popped) >= k)
    /\ \A k \in 1..MaxEvents :
          (Len(MarketQueue.popped) + Len(MarketQueue.buf) >= k)
              ~> (Len(MarketQueue.popped) >= k)

\* The loop has just popped every indicator event while market events are
\* still queued, and it found the market queue non-empty in this iteration.
C16_Witness ==
    /\ trading_pc = "pop_market"
    /\ Len(published[Indicator]) = MaxEvents
    /\ IndicatorQueue.popped = published[Indicator]
    /\ MarketQueue.popped # <<>>
    /\ MarketQueue.buf # <<>>



\* -------------------------------------------------------- market-data wiring
\* The group entries that hold consumers of market-data engine k.
HeldIn(group, k) == {n \in ExchangeNames : group[n] = k}

\* C17: once the indicator and trading engines are constructed, every
\* market-data engine that was launched has consumers of its own output in
\* the group given to the indicator engine and in the group given to the
\* trading engine, for every exchange list, repeated names included.
C17_MarketDataWiring ==
    status[Trading] # "absent" =>
        \A k \in MdEngines :
            Launched(k) => HeldIn(indicator_in, k) # {} /\ HeldIn(trading_in, k) # {}



\* ------------------------------------------------------------ data_rx calls
\* The most consumers asked of one engine before it is started.
MaxDataRx == 3

\* main.rs:103 with every spawn so far successful and the configuration
\* {exchanges: ["ftx"]}: the indicator and trading engines are constructed
\* and not yet moved into start_engine, so data_rx can be called on them.
InitDataRx ==
    /\ bot_id = "ok" /\ server_addr = "ok"
    /\ main_pc = "start_audit"
    /\ exit_code = "running"
    /\ hook_set = TRUE
    /\ triggered = FALSE
    /\ delay_tokens = {Control, FirstMd}
    /\ clones = {Control, FirstMd}
    /\ shutdown_calls = 0
    /\ transitions = 0
    /\ published_config = << <<"ftx">> >>
    /\ config = << <<"ftx">> >>
    /\ config_rxs = <<1>>
    /\ i = 2
    /\ status = [e \in Engines |->
                    IF e \in {Control, FirstMd} THEN "running"
                    ELSE IF e \in {Indicator, Trading} THEN "constructed"
                    ELSE "absent"]
    /\ config_rx = [e \in Engines |->
                       IF e = FirstMd THEN 3 ELSE IF e = Indicator THEN 2 ELSE 0]
    /\ data_txs = [e \in Engines |->
                      IF e = Control THEN [k \in 1..(ConfigRxEnd - ConfigRxFirst) |-> NewQueue]
                      ELSE IF e = FirstMd THEN [k \in 1..(2 * NumGroups) |-> NewQueue]
                      ELSE IF e = Indicator THEN <<NewQueue>>
                      ELSE <<>>]
    /\ market_data_rxs = <<>>
    /\ indicator_in = FtxOnly
    /\ trading_in = FtxOnly
    /\ sig_pending = "none"
    /\ sig_received = "none"
    /\ faults = 0
    /\ spawn_failed = FALSE
    /\ trading_pc = "pop_market"
    /\ published = [e \in Engines |-> <<>>]
    /\ pub_cur = [e \in Engines |-> <<>>]
    /\ pub_idx = [e \in Engines |-> 1]

\* The producer half goes out of scope: nothing can be pushed any more.
DropProducer(q) == [q EXCEPT !.attached = FALSE]

\* trading.rs:33-37: a queue is made, its consumer half returned and its
\* producer half _data_tx dropped at the end of the function.
TradingDataRx ==
    /\ Alive /\ status[Trading] = "constructed"
    /\ Len(data_txs[Trading]) < MaxDataRx
    /\ data_txs' = [data_txs EXCEPT ![Trading] = Append(@, DropProducer(NewQueue))]
    /\ UNCHANGED <<main_vars, fanout_vars>>

\* data_rx of the indicator engine, as main.rs:103 calls it: the engine
\* keeps the producer half.
IndicatorDataRx ==
    /\ Alive /\ status[Indicator] = "constructed"
    /\ Len(data_txs[Indicator]) < MaxDataRx
    /\ data_txs' = [data_txs EXCEPT ![Indicator] = Append(@, NewQueue)]
    /\ UNCHANGED <<main_vars, fanout_vars>>

NextDataRx ==
    \/ TradingDataRx
    \/ IndicatorDataRx
    \/ StartAuditEngine
    \/ StartTradingEngine
    \/ StartIndicatorEngine
    \/ RegisterSignals
    \/ Fault

SpecDataRx == InitDataRx /\ [][NextDataRx]_vars

\* C18: every consumer handle an engine has returned from data_rx is
\* attached to a producer half the engine still holds, so that an event the
\* engine publishes can be popped from it.
C18_NoPlaceholderConsumers ==
    \A e \in Engines : \A c \in 1..Len(data_txs[e]) : data_txs[e][c].attached



\* ------------------------------------------------- configuration-consumer pool
\* The main thread is about to pop a configuration consumer: for the
\* initial read (main.rs:52), for a recognized list entry (main.rs:63, 80)
\* or for the indicator engine (main.rs:100).
PopDue ==
    \/ main_pc = "await_config"
    \/ /\ main_pc = "exchanges"
       /\ \/ i > Len(Exchanges)
          \/ Exchanges[i] \in Recognized

\* C19: for every exchange list the control engine delivers, whenever the
\* main thread is about to pop a configuration consumer the pool of the four
\* consumers minted at main.rs:44-47 is not empty.
C19_ConfigPoolSufficient ==
    (Alive /\ PopDue) => config_rxs # <<>>


=============================================================================
